---- MODULE Spec2Model ----
(***************************************************************************)
(* A model of the Graphite exporter of go-metrics-graphite (graphite.go):  *)
(* the serializer of one flush cycle (func graphite), its two entry points *)
(* (Once and WithConfig) and the helper splitNameAndTags.                  *)
(*                                                                         *)
(* Strings are sequences of one-character strings.  A float64 that is      *)
(* printed with %.2f or %f is carried as an integer number of hundredths;  *)
(* a duration is an integer number of nanoseconds, the flush interval an   *)
(* integer number of seconds.  A percentile fraction p is carried as the   *)
(* integer 1000*p.                                                         *)
(***************************************************************************)
EXTENDS Integers, Sequences, FiniteSets, TLC

\* ------------------------------------------------------------------------
\* Bounds of the model
\* ------------------------------------------------------------------------

\* Seconds of wall-clock time the model lets pass.
MaxClock == 4

\* Longest raw metric name the splitter is applied to in PureSpec.
MaxLen == 4

\* ------------------------------------------------------------------------
\* Strings and the fmt verbs the serializer uses
\* ------------------------------------------------------------------------

DigitChars == <<"0", "1", "2", "3", "4", "5", "6", "7", "8", "9">>

RECURSIVE FormatNat(_)
\* The decimal digits of a natural number.
FormatNat(n) ==
    IF n < 10 THEN <<DigitChars[n + 1]>>
    ELSE FormatNat(n \div 10) \o <<DigitChars[(n % 10) + 1]>>

\* fmt's %d of an int64.
FormatInt(n) == IF n < 0 THEN <<"-">> \o FormatNat(-n) ELSE FormatNat(n)

\* The width of a float64's significand.
SigBits == 53

RECURSIVE Bits(_)
\* The binary digits of a natural number, most significant first (none for 0).
Bits(n) == IF n = 0 THEN <<>> ELSE Bits(n \div 2) \o <<n % 2>>

RECURSIVE LongDiv(_, _, _, _)
\* Binary long division of the number with digits bits by d: the quotient's
\* digits (as many as bits has) and the remainder.
LongDiv(bits, d, rem, acc) ==
    IF bits = <<>> THEN [q |-> acc, rem |-> rem]
    ELSE LongDiv(Tail(bits), d, (2 * rem + Head(bits)) % d,
                 Append(acc, (2 * rem + Head(bits)) \div d))

RECURSIVE StripZeros(_)
StripZeros(s) == IF s # <<>> /\ Head(s) = 0 THEN StripZeros(Tail(s)) ELSE s

RECURSIVE Extend(_, _, _, _)
\* The long division carried on below the last digit, until the quotient has
\* SigBits + 1 significant digits; e is the binary exponent of its last digit.
Extend(q, rem, d, e) ==
    IF Len(q) = SigBits + 1 THEN [q |-> q, rem |-> rem, e |-> e]
    ELSE Extend(IF q = <<>> /\ 2 * rem < d THEN <<>> ELSE Append(q, (2 * rem) \div d),
                (2 * rem) % d, d, e - 1)

RECURSIVE Inc(_)
\* s + 1 on binary digits of the same length (all ones wrap to all zeros).
Inc(s) ==
    IF s = <<>> THEN <<>>
    ELSE IF s[Len(s)] = 0 THEN SubSeq(s, 1, Len(s) - 1) \o <<1>>
    ELSE Inc(SubSeq(s, 1, Len(s) - 1)) \o <<0>>

\* Round to nearest, ties to even: the SigBits digits sig with guard digit
\* guard, sticky flag sticky and e the exponent of the guard digit; up says
\* whether the significand is incremented and inc is the incremented one.
RoundNearestEven(sig, guard, sticky, e, up, inc) ==
    [sig |-> IF ~up THEN sig
             ELSE IF inc[1] = 0 THEN <<1>> \o SubSeq(inc, 1, SigBits - 1)
             ELSE inc,
     exp |-> IF up /\ inc[1] = 0 THEN e + 2 ELSE e + 1,
     dir |-> IF guard = 0 /\ ~sticky THEN "exact"
             ELSE IF up THEN "above" ELSE "below"]

\* The float64 nearest to a quotient given by its first SigBits + 1 digits q,
\* the remainder left after them and the exponent e of the last digit.
Float64Of(q, rem, e) ==
    RoundNearestEven(SubSeq(q, 1, SigBits), q[SigBits + 1], rem # 0, e,
                     q[SigBits + 1] = 1 /\ (rem # 0 \/ q[SigBits] = 1),
                     Inc(SubSeq(q, 1, SigBits)))

\* The long division ld carried on to SigBits + 1 digits and rounded.
Float64OfDivision(ld, d, e0) ==
    Float64Of(Extend(StripZeros(ld.q), ld.rem, d, e0).q,
              Extend(StripZeros(ld.q), ld.rem, d, e0).rem,
              Extend(StripZeros(ld.q), ld.rem, d, e0).e)

\* The float64 quotient (bits * 2^e0) / d of a positive number and a positive
\* integer, rounded to nearest, ties to even, as the hardware divides: its
\* SigBits digits, the exponent of the last of them, and whether the float64
\* is the exact quotient, above it or below it.
Float64Div(bits, e0, d) == Float64OfDivision(LongDiv(bits, d, 0, <<>>), d, e0)

\* The float64 x divided by the positive integer d.
Float64DivBy(x, d) == Float64Div(x.sig, x.exp, d)

\* x < y for two positive float64 values.
Float64Less(x, y) ==
    \/ x.exp < y.exp
    \/ /\ x.exp = y.exp
       /\ \E i \in 1..SigBits :
             /\ x.sig[i] < y.sig[i]
             /\ \A j \in 1..(i - 1) : x.sig[j] = y.sig[j]

\* Where the float64 x lies relative to the real number whose nearest float64
\* is t: no float64 lies strictly between that number and t, so the comparison
\* with t decides, and on equality the direction in which t was rounded.
SideOf(x, t) ==
    IF Float64Less(x, t) THEN "below"
    ELSE IF Float64Less(t, x) THEN "above"
    ELSE t.dir

\* Where the float64 the code prints, float64(h/100)/float64(den), lies
\* relative to the decimal tie (2q+1)/200 that the exact h/(100*den) is.
TieSide(h, den, q) ==
    SideOf(Float64DivBy(Float64Div(Bits(h), 0, 100), den),
           Float64Div(Bits(2 * q + 1), 0, 200))

\* The hundredths fmt's %.2f prints for float64(h/100)/float64(den), h >= 0,
\* den > 0: the decimal nearest to the float64's exact binary value, an exact
\* tie going to the even digit.  Off a decimal tie of h/(100*den) the float64's
\* rounding error (below 2^-51 of its value) cannot reach the tie, so the exact
\* quotient decides; on one the side of the float64 decides.
HundredthsF2(h, den) ==
    LET q == h \div den
        r == h % den
    IN  IF 2 * r < den THEN q
        ELSE IF 2 * r > den THEN q + 1
        ELSE IF TieSide(h, den, q) = "above" THEN q + 1
        ELSE IF TieSide(h, den, q) = "below" THEN q
        ELSE IF q % 2 = 0 THEN q ELSE q + 1

\* fmt's %.2f of the float64 quotient float64(h/100)/float64(den), for h >= 0
\* hundredths and an integral divisor den > 0.
FormatF2(h, den) ==
    LET r == HundredthsF2(h, den)
    IN  FormatNat(r \div 100) \o <<".">>
        \o <<DigitChars[((r \div 10) % 10) + 1], DigitChars[(r % 10) + 1]>>

\* Go's / on int64 for a positive divisor: the quotient truncated toward zero.
IntQuo(a, b) == IF a >= 0 THEN a \div b ELSE -((-a) \div b)

\* fmt's %f (six decimals) of the float64 h/100, h >= 0 hundredths.
FormatF6(h) ==
    FormatNat(h \div 100) \o <<".">>
    \o <<DigitChars[((h \div 10) % 10) + 1], DigitChars[(h % 10) + 1]>>
    \o <<"0", "0", "0", "0">>

\* strings.Contains(s, ch) for a one-character ch.
Contains(s, ch) == \E i \in 1..Len(s) : s[i] = ch

\* strings.Index(s, ch) for a one-character ch that s contains (1-based).
IndexOf(s, ch) == CHOOSE i \in 1..Len(s) : s[i] = ch /\ \A j \in 1..(i - 1) : s[j] # ch

\* The last occurrence instead of the first.
LastIndexOf(s, ch) == CHOOSE i \in 1..Len(s) : s[i] = ch /\ \A j \in (i + 1)..Len(s) : s[j] # ch

\* A variant of SplitPoint that cuts at the last semicolon.
SplitPointLast(s) == LastIndexOf(s, ";")

\* The position strings.SplitN(s, ";", 2) cuts s at: the first semicolon.
SplitPoint(s) == IndexOf(s, ";")

\* strings.SplitN(s, ";", 2).
SplitN2(s) ==
    IF Contains(s, ";")
    THEN <<SubSeq(s, 1, SplitPoint(s) - 1), SubSeq(s, SplitPoint(s) + 1, Len(s))>>
    ELSE <<s>>

\* func splitNameAndTags(name string) (string, string)
splitNameAndTags(name) ==
    IF Contains(name, ";")
    THEN LET splitted == SplitN2(name)
         IN  IF Len(splitted) = 2
             THEN <<splitted[1], <<";">> \o splitted[2]>>
             ELSE <<name, <<>>>>
    ELSE <<name, <<>>>>

\* ------------------------------------------------------------------------
\* The percentile key
\* ------------------------------------------------------------------------

\* The percentile fractions (times 1000) the model configures.
PercentileDomain == {0, 7, 70, 290, 500, 750, 950, 990, 999, 1000}

\* The float64 product psKey*100.0 for psKey = p/1000, as the shortest decimal
\* that identifies it: an integer part and the fraction's digits.  The product
\* is the exact p/10 except where IEEE-754 rounding moves it (0.007, 0.07 and
\* 0.29 within PercentileDomain).
Mul100(p) ==
    CASE p = 7   -> [int |-> 0,  frac |-> <<7, 0, 0, 0, 0, 0, 0, 0, 0, 0, 0, 0, 0, 0, 0, 1>>]
      [] p = 70  -> [int |-> 7,  frac |-> <<0, 0, 0, 0, 0, 0, 0, 0, 0, 0, 0, 0, 0, 0, 1>>]
      [] p = 290 -> [int |-> 28, frac |-> <<9, 9, 9, 9, 9, 9, 9, 9, 9, 9, 9, 9, 9, 9, 6>>]
      [] p \in PercentileDomain \ {7, 70, 290} ->
            [int |-> p \div 10, frac |-> IF p % 10 = 0 THEN <<>> ELSE <<p % 10>>]

\* A variant of FormatFloat that always prints one decimal: FormatFloat(x, 'f', 1, 64).
FormatFloatFixed1(x) ==
    FormatNat(x.int) \o <<".">>
    \o <<DigitChars[(IF x.frac = <<>> THEN 0 ELSE x.frac[1]) + 1]>>

\* strconv.FormatFloat(x, 'f', -1, 64): the fewest digits that identify x.
FormatFloat(x) ==
    FormatNat(x.int)
    \o (IF x.frac = <<>> THEN <<>>
        ELSE <<".">> \o [i \in 1..Len(x.frac) |-> DigitChars[x.frac[i] + 1]])

\* strings.Replace(s, ".", "", 1): s without its first ".".
RemoveFirstDot(s) ==
    IF Contains(s, ".")
    THEN SubSeq(s, 1, IndexOf(s, ".") - 1) \o SubSeq(s, IndexOf(s, ".") + 1, Len(s))
    ELSE s

\* key := strings.Replace(strconv.FormatFloat(psKey*100.0, 'f', -1, 64), ".", "", 1)
PercentileKey(p) == RemoveFirstDot(FormatFloat(Mul100(p)))

\* ------------------------------------------------------------------------
\* Metrics (snapshots of the go-metrics registry's entries)
\* ------------------------------------------------------------------------

\* The metric types the type switch of graphite() names, and one registered
\* type it does not name (a metrics.Healthcheck).
KnownKinds == {"Counter", "Gauge", "GaugeFloat64", "Histogram", "Meter", "Timer"}

Kinds == KnownKinds \cup {"Healthcheck"}

\* One metric of each kind, with the values its snapshot reports.  Integers
\* are int64 values; mean, stddev, the rates and fvalue are float64 values in
\* hundredths; a Timer's values are nanoseconds.  pctUnit is the value (in
\* hundredths) the snapshot's Percentiles() reports per 0.001 of fraction.
SampleMetric(kind) ==
    CASE kind = "Counter"      -> [kind |-> kind, count |-> 42]
      [] kind = "Gauge"        -> [kind |-> kind, value |-> -7]
      [] kind = "GaugeFloat64" -> [kind |-> kind, fvalue |-> 125]
      [] kind = "Histogram"    -> [kind |-> kind, count |-> 3, min |-> 1, max |-> 10,
                                   mean |-> 433, stddev |-> 340, pctUnit |-> 1]
      [] kind = "Meter"        -> [kind |-> kind, count |-> 5, rate1 |-> 150, rate5 |-> 75,
                                   rate15 |-> 25, rateMean |-> 210]
      [] kind = "Timer"        -> [kind |-> kind, count |-> 4, min |-> 1500000,
                                   max |-> 3000000, mean |-> 200000000,
                                   stddev |-> 50000000, pctUnit |-> 300000,
                                   rate1 |-> 150, rate5 |-> 75, rate15 |-> 25,
                                   rateMean |-> 210]
      [] kind = "Healthcheck"  -> [kind |-> kind]

Metrics == {SampleMetric(k) : k \in Kinds}

\* snapshot.Percentiles(c.Percentiles): one value (in hundredths) per fraction.
Percentiles(m, ps) == [i \in 1..Len(ps) |-> m.pctUnit * ps[i]]

\* The raw names metrics are registered under: "cpu", without tags, and
\* "disk.used;dc=a", with one tag.
NamePlain == <<"c", "p", "u">>

NameTagged ==
    <<"d", "i", "s", "k", ".", "u", "s", "e", "d", ";", "d", "c", "=", "a">>

RawNames == {NamePlain, NameTagged}

\* ------------------------------------------------------------------------
\* The serializer: the body of the callback graphite() hands to Registry.Each
\* ------------------------------------------------------------------------

\* fmt.Fprintf(w, "%s.%s.<field>%s <value> %d\n", c.Prefix, name, tags, value, now)
Line(prefix, name, field, tags, value, now) ==
    prefix \o <<".">> \o name \o <<".">> \o field \o tags
    \o <<" ">> \o value \o <<" ">> \o FormatInt(now) \o <<"\n">>

\* fmt.Fprintf(w, "%s.%s.%s-percentile%s %.2f %d\n", c.Prefix, name, tags, key, value, now):
\* the third %s receives tags and the fourth receives key.
PercentileLine(prefix, name, tags, key, value, now) ==
    prefix \o <<".">> \o name \o <<".">> \o tags \o <<"-", "p", "e", "r", "c", "e", "n", "t", "i", "l", "e">> \o key
    \o <<" ">> \o value \o <<" ">> \o FormatInt(now) \o <<"\n">>

\* The percentile loop of the Histogram and Timer branches; du is the divisor
\* of the values (1 in the Histogram branch).
PercentileLines(c, name, tags, m, du, now) ==
    LET ps == Percentiles(m, c.Percentiles)
    IN  [psIdx \in 1..Len(c.Percentiles) |->
            PercentileLine(c.Prefix, name, tags, PercentileKey(c.Percentiles[psIdx]),
                           FormatF2(ps[psIdx], du), now)]

\* The lines one metric's case of the type switch writes, in order.
Serialize(c, rawName, m, now) ==
    LET nt   == splitNameAndTags(rawName)
        name == nt[1]
        tags == nt[2]
        du   == c.DurationUnit
        flushSeconds == c.FlushInterval
        L(field, value) == Line(c.Prefix, name, field, tags, value, now)
    IN  CASE m.kind = "Counter" ->
               <<L(<<"c", "o", "u", "n", "t">>, FormatInt(m.count)),
                 L(<<"c", "o", "u", "n", "t", "_", "p", "s">>, FormatF2(m.count * 100, flushSeconds))>>
          [] m.kind = "Gauge" ->
               <<L(<<"v", "a", "l", "u", "e">>, FormatInt(m.value))>>
          [] m.kind = "GaugeFloat64" ->
               <<L(<<"v", "a", "l", "u", "e">>, FormatF6(m.fvalue))>>
          [] m.kind = "Histogram" ->
               <<L(<<"c", "o", "u", "n", "t">>, FormatInt(m.count)),
                 L(<<"m", "i", "n">>, FormatInt(m.min)),
                 L(<<"m", "a", "x">>, FormatInt(m.max)),
                 L(<<"m", "e", "a", "n">>, FormatF2(m.mean, 1)),
                 L(<<"s", "t", "d", "-", "d", "e", "v">>, FormatF2(m.stddev, 1))>>
               \o PercentileLines(c, name, tags, m, 1, now)
          [] m.kind = "Meter" ->
               <<L(<<"c", "o", "u", "n", "t">>, FormatInt(m.count)),
                 L(<<"o", "n", "e", "-", "m", "i", "n", "u", "t", "e">>, FormatF2(m.rate1, 1)),
                 L(<<"f", "i", "v", "e", "-", "m", "i", "n", "u", "t", "e">>, FormatF2(m.rate5, 1)),
                 L(<<"f", "i", "f", "t", "e", "e", "n", "-", "m", "i", "n", "u", "t", "e">>, FormatF2(m.rate15, 1)),
                 L(<<"m", "e", "a", "n">>, FormatF2(m.rateMean, 1))>>
          [] m.kind = "Timer" ->
               <<L(<<"c", "o", "u", "n", "t">>, FormatInt(m.count)),
                 L(<<"c", "o", "u", "n", "t", "_", "p", "s">>, FormatF2(m.count * 100, flushSeconds)),
                 L(<<"m", "i", "n">>, FormatInt(IntQuo(m.min, du))),
                 L(<<"m", "a", "x">>, FormatInt(IntQuo(m.max, du))),
                 L(<<"m", "e", "a", "n">>, FormatF2(m.mean, du)),
                 L(<<"s", "t", "d", "-", "d", "e", "v">>, FormatF2(m.stddev, du))>>
               \o PercentileLines(c, name, tags, m, du, now)
               \o <<L(<<"o", "n", "e", "-", "m", "i", "n", "u", "t", "e">>, FormatF2(m.rate1, 1)),
                    L(<<"f", "i", "v", "e", "-", "m", "i", "n", "u", "t", "e">>, FormatF2(m.rate5, 1)),
                    L(<<"f", "i", "f", "t", "e", "e", "n", "-", "m", "i", "n", "u", "t", "e">>, FormatF2(m.rate15, 1)),
                    L(<<"m", "e", "a", "n", "-", "r", "a", "t", "e">>, FormatF2(m.rateMean, 1))>>
          [] OTHER -> <<>>

\* Whether the type switch takes its default branch (log.Printf) for m.
Unrecognized(m) == m.kind \notin KnownKinds

\* ------------------------------------------------------------------------
\* State
\* ------------------------------------------------------------------------

VARIABLES
    c,          \* the Config handed to Once or WithConfig
    registry,   \* c.Registry: raw name -> metric
    mode,       \* "none", "Once" or "WithConfig": the entry point called
    pc,         \* the caller's position: "idle", "wait", "dial", "each", "ret", "done"
    clock,      \* wall-clock seconds since the entry point was called
    tickCh,     \* whether time.Tick's channel (capacity 1) holds a tick
    fired,      \* ticks the ticker has produced
    cycles,     \* calls of graphite() so far
    failed,     \* cycles so far that met a dial, write or flush error
    now,        \* graphite's now := time.Now().Unix()
    conn,       \* the cycle's connection: "nil", "open" or "closed"
    openConns,  \* connections dialled and not yet closed
    wErr,       \* the bufio.Writer's sticky error
    todo,       \* names Registry.Each has still to visit
    out,        \* per visited metric: what the writer buffered, how Flush ended
    flushes,    \* calls of w.Flush() in this cycle
    logged,     \* what this cycle handed to the log package
    err,        \* graphite's return value: "none", "nil" or "dial"
    result,     \* Once's return value: "none", "nil" or "dial"
    fn,         \* PureSpec: the pure function applied, "none" until then
    arg,        \* PureSpec: its argument
    res         \* PureSpec: its result

cycleVars == <<now, conn, openConns, wErr, todo, out, flushes, logged, err>>

pureVars == <<fn, arg, res>>

vars == <<c, registry, mode, pc, clock, tickCh, fired, cycles, failed, now, conn, openConns,
          wErr, todo, out, flushes, logged, err, result, fn, arg, res>>

\* type Config struct, without Addr and Registry: the configurations the model
\* starts from.  FlushInterval is in seconds, DurationUnit in nanoseconds
\* (time.Nanosecond, time.Millisecond).  The first is what Graphite() builds.
Configs ==
    {[FlushInterval |-> 1, DurationUnit |-> 1, Prefix |-> <<"p">>,
      Percentiles |-> <<500, 750, 950, 990, 999>>],
     [FlushInterval |-> 2, DurationUnit |-> 1000000, Prefix |-> <<"p">>,
      Percentiles |-> <<999, 7, 290>>],
     [FlushInterval |-> 1, DurationUnit |-> 1000000, Prefix |-> <<"p">>,
      Percentiles |-> <<>>],
     [FlushInterval |-> 2, DurationUnit |-> 1, Prefix |-> <<"p">>,
      Percentiles |-> <<1000, 70, 0>>]}

\* The registries: any of the raw names registered, each with any metric.
Registries == UNION {[S -> Metrics] : S \in SUBSET RawNames}

\* The orders Registry.Each may visit the registered names in.
Orders(r) ==
    {o \in UNION {[1..n -> DOMAIN r] : n \in {Cardinality(DOMAIN r)}} :
        \A i, j \in DOMAIN o : i # j => o[i] # o[j]}

\* The lines the connection has received: those of the flushes that succeeded.
RECURSIVE WireOf(_)
WireOf(o) ==
    IF o = <<>> THEN <<>>
    ELSE (IF Head(o).flushed THEN Head(o).lines ELSE <<>>) \o WireOf(Tail(o))

Wire == WireOf(out)

\* Nothing has been called yet.
Idle ==
    /\ mode = "none"
    /\ pc = "idle"
    /\ clock = 0
    /\ tickCh = FALSE
    /\ fired = 0
    /\ cycles = 0
    /\ failed = 0
    /\ now = 0
    /\ conn = "nil"
    /\ openConns = 0
    /\ wErr = FALSE
    /\ todo = <<>>
    /\ out = <<>>
    /\ flushes = 0
    /\ logged = <<>>
    /\ err = "none"
    /\ result = "none"

Init ==
    /\ c \in Configs
    /\ registry \in Registries
    /\ Idle
    /\ fn = "none"
    /\ arg = [name |-> <<>>, p |-> 0]
    /\ res = [name |-> <<>>, tags |-> <<>>, key |-> <<>>]

\* ------------------------------------------------------------------------
\* Actions
\* ------------------------------------------------------------------------

\* The first lines of graphite(): now, du and flushSeconds are computed and
\* the cycle's state is fresh.
EnterGraphite ==
    /\ now' = clock
    /\ cycles' = cycles + 1
    /\ conn' = "nil"
    /\ wErr' = FALSE
    /\ todo' = <<>>
    /\ out' = <<>>
    /\ flushes' = 0
    /\ logged' = <<>>
    /\ err' = "none"
    /\ pc' = "dial"

\* func Once(c Config) error: the call.
Once ==
    /\ pc = "idle"
    /\ mode' = "Once"
    /\ EnterGraphite
    /\ UNCHANGED <<c, registry, clock, tickCh, fired, failed, openConns, result, pureVars>>

\* func WithConfig(c Config): the call, which creates the ticker.
WithConfig ==
    /\ pc = "idle"
    /\ mode' = "WithConfig"
    /\ pc' = "wait"
    /\ UNCHANGED <<c, registry, clock, tickCh, fired, cycles, failed, cycleVars, result, pureVars>>

\* A variant of TickReady: a loop that does not wait for the ticker.
TickReadyAlways == TRUE

\* Whether the range loop over time.Tick(c.FlushInterval) may start an iteration.
TickReady == tickCh

\* for _ = range time.Tick(c.FlushInterval): one tick is received and the
\* loop body calls graphite(&c).
RecvTick ==
    /\ mode = "WithConfig"
    /\ pc = "wait"
    /\ TickReady
    /\ tickCh' = FALSE
    /\ EnterGraphite
    /\ UNCHANGED <<c, registry, mode, clock, fired, failed, openConns, result, pureVars>>

\* A second passes.  The ticker fires every c.FlushInterval seconds; a tick
\* that finds the channel full is dropped.
TimePasses ==
    /\ pc \in {"wait", "dial", "each", "ret"}
    /\ clock < MaxClock
    /\ clock' = clock + 1
    /\ IF mode = "WithConfig" /\ (clock + 1) % c.FlushInterval = 0
       THEN fired' = fired + 1 /\ tickCh' = TRUE
       ELSE UNCHANGED <<fired, tickCh>>
    /\ UNCHANGED <<c, registry, mode, pc, cycles, failed, cycleVars, result, pureVars>>

\* A variant of DialFailed that ignores the error and goes on to Registry.Each.
DialFailedIgnored ==
    /\ err' = "dial"
    /\ pc' = "each"
    /\ \E o \in Orders(registry) : todo' = o
    /\ UNCHANGED <<conn, openConns, wErr, out, flushes, logged>>

\* What graphite() does when net.DialTCP fails: return err.
DialFailed ==
    /\ err' = "dial"
    /\ pc' = "ret"
    /\ UNCHANGED <<conn, openConns, wErr, todo, out, flushes, logged>>

\* conn, err := net.DialTCP("tcp", nil, c.Addr), either outcome.
Dial ==
    /\ pc = "dial"
    /\ \/ DialFailed
       \/ /\ conn' = "open"
          /\ openConns' = openConns + 1
          /\ \E o \in Orders(registry) : todo' = o
          /\ pc' = "each"
          /\ UNCHANGED <<wErr, out, flushes, logged, err>>
    /\ UNCHANGED <<c, registry, mode, clock, tickCh, fired, cycles, failed, now, result, pureVars>>

\* The log entry of the type switch's default branch.
Notice(m) == [msg |-> "unable to record metric of type", detail |-> m.kind]

\* A variant of Remaining: a metric of unrecognized type ends the enumeration.
RemainingStopAtUnrecognized(t, m) == IF Unrecognized(m) THEN <<>> ELSE Tail(t)

\* What the callback leaves Registry.Each to visit after the metric at the
\* head of t: the callback has no way to stop the enumeration.
Remaining(t, m) == Tail(t)

\* A variant of FlushCalls: no flush after an unrecognized type or once the
\* writer has failed.
FlushCallsOnlyWhenWritten(m, werr) == IF Unrecognized(m) \/ werr THEN 0 ELSE 1

\* The calls of w.Flush() one run of the callback makes: the call follows the
\* type switch, whatever branch was taken and whatever the writes returned.
FlushCalls(m, werr) == 1

\* One run of the callback of c.Registry.Each: the name is split, the type
\* switch writes the metric's lines to the bufio.Writer or logs a notice, and
\* w.Flush() is called.  A bufio.Writer that has failed drops every later
\* write and fails every later Flush; a Flush of an empty buffer succeeds
\* without touching the connection; any other Flush succeeds or fails, and a
\* failed Flush is taken to deliver none of the metric's lines.
Visit ==
    /\ pc = "each"
    /\ todo # <<>>
    /\ LET name     == Head(todo)
           m        == registry[name]
           buffered == IF wErr THEN <<>> ELSE Serialize(c, name, m, now)
           calls    == FlushCalls(m, wErr)
       IN  \E ok \in BOOLEAN :
             /\ wErr => ~ok
             /\ (~wErr /\ (buffered = <<>> \/ calls = 0)) => ok
             /\ wErr' = (wErr \/ ~ok)
             /\ out' = Append(out, [raw |-> name, kind |-> m.kind, lines |-> buffered,
                                    flushed |-> (ok /\ calls > 0)])
             /\ flushes' = flushes + calls
             /\ logged' = IF Unrecognized(m) THEN Append(logged, Notice(m)) ELSE logged
             /\ todo' = Remaining(todo, m)
    /\ UNCHANGED <<c, registry, mode, pc, clock, tickCh, fired, cycles, failed, now, conn,
                   openConns, err, result, pureVars>>

\* A variant of ReturnValue that reports the writer's error.
ReturnValueWriterError == IF wErr THEN "write" ELSE "nil"

\* graphite()'s result after Registry.Each: return nil.
ReturnValue == "nil"

\* A variant of CloseRuns: the connection is closed only after a clean cycle.
CloseRunsOnlyWhenClean == ~wErr

\* Whether the deferred conn.Close() runs when graphite() returns.
CloseRuns == TRUE

\* Registry.Each has returned: graphite() returns nil and the deferred
\* conn.Close() runs.
Return ==
    /\ pc = "each"
    /\ todo = <<>>
    /\ err' = ReturnValue
    /\ IF CloseRuns
       THEN conn' = "closed" /\ openConns' = openConns - 1
       ELSE UNCHANGED <<conn, openConns>>
    /\ pc' = "ret"
    /\ UNCHANGED <<c, registry, mode, clock, tickCh, fired, cycles, failed, now, wErr, todo,
                   out, flushes, logged, result, pureVars>>

\* Once returns what graphite() returned.
OnceReturn ==
    /\ mode = "Once"
    /\ pc = "ret"
    /\ result' = err
    /\ pc' = "done"
    /\ failed' = IF err # "nil" \/ wErr THEN failed + 1 ELSE failed
    /\ UNCHANGED <<c, registry, mode, clock, tickCh, fired, cycles, cycleVars, pureVars>>

\* A variant of LoopTarget: the loop ends on an error.
LoopTargetStopOnError(e) == IF e # "nil" THEN "done" ELSE "wait"

\* Where WithConfig's loop goes after graphite() returned e: back to the range
\* over the ticker, whatever e is.
LoopTarget(e) == "wait"

\* The rest of WithConfig's loop body: if err := graphite(&c); nil != err
\* { log.Println(err) }, then the next iteration.
LoopBody ==
    /\ mode = "WithConfig"
    /\ pc = "ret"
    /\ logged' = IF err # "nil" THEN Append(logged, [msg |-> "error", detail |-> err])
                 ELSE logged
    /\ pc' = LoopTarget(err)
    /\ failed' = IF err # "nil" \/ wErr THEN failed + 1 ELSE failed
    /\ UNCHANGED <<c, registry, mode, clock, tickCh, fired, cycles, now, conn, openConns,
                   wErr, todo, out, flushes, err, result, pureVars>>

Next ==
    \/ Once
    \/ WithConfig
    \/ RecvTick
    \/ TimePasses
    \/ Dial
    \/ Visit
    \/ Return
    \/ OnceReturn
    \/ LoopBody

Spec == Init /\ [][Next]_vars

\* The exporter's goroutine keeps running and time keeps passing: every step
\* of the loop that can be taken is taken eventually.
\* The liveness of the loop is checked from the registries that hold at most
\* one metric.
InitLive == Init /\ Cardinality(DOMAIN registry) <= 1

LiveSpec ==
    /\ InitLive
    /\ [][Next]_vars
    /\ WF_vars(TimePasses)
    /\ WF_vars(RecvTick)
    /\ WF_vars(Dial)
    /\ WF_vars(Visit)
    /\ WF_vars(Return)
    /\ WF_vars(LoopBody)

\* ------------------------------------------------------------------------
\* The pure functions, applied to inputs drawn from bounded sets
\* ------------------------------------------------------------------------

NameAlphabet == {"a", "b", ";"}

\* The raw names of at most MaxLen characters.
Names == UNION {[1..n -> NameAlphabet] : n \in 0..MaxLen}

InitPure ==
    /\ c \in {cf \in Configs : cf.Percentiles = <<>>}
    /\ registry = <<>>
    /\ Idle
    /\ fn = "none"
    /\ arg \in [name : Names, p : PercentileDomain]
    /\ res = [name |-> <<>>, tags |-> <<>>, key |-> <<>>]

\* name, tags := splitNameAndTags(name)
ApplySplit ==
    /\ fn = "none"
    /\ fn' = "splitNameAndTags"
    /\ LET r == splitNameAndTags(arg.name)
       IN  res' = [name |-> r[1], tags |-> r[2], key |-> <<>>]
    /\ UNCHANGED <<c, registry, mode, pc, clock, tickCh, fired, cycles, failed, cycleVars,
                   result, arg>>

\* key := strings.Replace(strconv.FormatFloat(psKey*100.0, 'f', -1, 64), ".", "", 1)
ApplyKey ==
    /\ fn = "none"
    /\ fn' = "PercentileKey"
    /\ res' = [name |-> <<>>, tags |-> <<>>, key |-> PercentileKey(arg.p)]
    /\ UNCHANGED <<c, registry, mode, pc, clock, tickCh, fired, cycles, failed, cycleVars,
                   result, arg>>

PureNext == ApplySplit \/ ApplyKey

PureSpec == InitPure /\ [][PureNext]_vars

\* ------------------------------------------------------------------------
\* Properties
\* ------------------------------------------------------------------------

\* The dial of the current cycle failed.
DialRefused == err = "dial"

\* The entries of out whose metric the type switch does not recognize.
UnrecognizedVisits == {i \in 1..Len(out) : out[i].kind \notin KnownKinds}

IsNotice(e) == e.msg = "unable to record metric of type"

\* C1: in single-shot mode a failed dial makes Once return the (non-nil) dial
\* error, and that cycle enumerates nothing, writes nothing and flushes nothing;
\* the enumeration only ever runs on an open connection.
C1_OnceDialFailure ==
    /\ (pc = "each") => (conn = "open")
    /\ (mode = "Once" /\ pc \in {"ret", "done"} /\ conn = "nil") =>
          /\ err = "dial"
          /\ out = <<>>
          /\ Wire = <<>>
          /\ flushes = 0
          /\ todo = <<>>
    /\ (mode = "Once" /\ pc = "done" /\ conn = "nil") => (result = "dial")

\* Once has returned after a failed dial, with two metrics registered.
C1_Witness ==
    /\ mode = "Once"
    /\ pc = "done"
    /\ conn = "nil"
    /\ result = "dial"
    /\ DOMAIN registry = RawNames

\* A cycle of the continuous mode has returned after an error during it.
FailedCycle == mode = "WithConfig" /\ pc = "ret" /\ (err = "dial" \/ wErr)

\* C2: in continuous mode a failed cycle never ends the loop (WithConfig never
\* returns), a dial error is handed to the log, and after a failed cycle the
\* next tick starts a new cycle (as long as the clock of the model lets one
\* more interval pass).
C2_FailedCycleDoesNotStopLoop ==
    /\ [](mode = "WithConfig" => (pc # "done" /\ result = "none"))
    /\ []((mode = "WithConfig" /\ pc = "wait" /\ err = "dial") =>
            (logged = <<[msg |-> "error", detail |-> "dial"]>>))
    /\ (FailedCycle /\ clock + c.FlushInterval <= MaxClock) ~> (pc = "dial")

\* The loop is in a cycle that was started after a failed one.
C2_Witness ==
    /\ mode = "WithConfig"
    /\ failed >= 1
    /\ cycles = failed + 1
    /\ pc = "each"
    /\ logged = <<>>

\* The field names of the wire format: the fixed ones and, for each configured
\* percentile, <key>-percentile.
FieldNames(cf) ==
    {<<"c", "o", "u", "n", "t">>, <<"c", "o", "u", "n", "t", "_", "p", "s">>, <<"v", "a", "l", "u", "e">>, <<"m", "i", "n">>,
     <<"m", "a", "x">>, <<"m", "e", "a", "n">>, <<"s", "t", "d", "-", "d", "e", "v">>,
     <<"o", "n", "e", "-", "m", "i", "n", "u", "t", "e">>,
     <<"f", "i", "v", "e", "-", "m", "i", "n", "u", "t", "e">>,
     <<"f", "i", "f", "t", "e", "e", "n", "-", "m", "i", "n", "u", "t", "e">>,
     <<"m", "e", "a", "n", "-", "r", "a", "t", "e">>}
    \cup {PercentileKey(cf.Percentiles[i]) \o <<"-", "p", "e", "r", "c", "e", "n", "t", "i", "l", "e">> :
            i \in 1..Len(cf.Percentiles)}

\* line is <prefix>.<name>.<field><tags> <value> <ts>\n for one of the fields
\* and some value without a space.
IsWireLine(line, prefix, name, tags, fields, ts) ==
    \E f \in fields :
        LET h == prefix \o <<".">> \o name \o <<".">> \o f \o tags \o <<" ">>
            t == <<" ">> \o FormatInt(ts) \o <<"\n">>
        IN  /\ Len(line) > Len(h) + Len(t)
            /\ SubSeq(line, 1, Len(h)) = h
            /\ SubSeq(line, Len(line) - Len(t) + 1, Len(line)) = t
            /\ ~Contains(SubSeq(line, Len(h) + 1, Len(line) - Len(t)), " ")

\* C3: every line written for a metric has the shape
\* <prefix>.<name>.<field><tags> <value> <timestamp>, the tag suffix right
\* after the complete field suffix.
C3_EveryLineHasWireShape ==
    \A i \in 1..Len(out) : \A j \in 1..Len(out[i].lines) :
        LET nt == splitNameAndTags(out[i].raw)
        IN  IsWireLine(out[i].lines[j], c.Prefix, nt[1], nt[2], FieldNames(c), now)

\* C4: outside the enumeration of a cycle no connection is open: the one the
\* cycle dialled is closed when graphite() returns, also after a write or
\* flush error.
C4_ConnectionClosedAtCycleEnd ==
    /\ openConns \in {0, 1}
    /\ (pc # "each") => (openConns = 0 /\ conn # "open")
    /\ (pc \in {"ret", "done"} /\ ~DialRefused) => (conn = "closed")

\* A cycle has returned after a flush failed in it.
C4_Witness == pc = "ret" /\ conn = "closed" /\ wErr /\ Len(out) = 2

\* C5: a cycle whose connection was opened returns nil: a write or flush
\* error is never its result, and Once returns a non-nil error exactly when
\* the dial failed.
C5_WriteErrorsNotReturned ==
    /\ (pc \in {"ret", "done"} /\ conn # "nil") => (err = "nil")
    /\ (mode = "Once" /\ pc = "done") =>
          /\ result \in {"nil", "dial"}
          /\ (result # "nil") <=> (conn = "nil")

\* Once has returned nil from a cycle in which a flush failed.
C5_Witness == mode = "Once" /\ pc = "done" /\ wErr /\ result = "nil" /\ conn = "closed"

\* C6: a metric of unrecognized type writes no line and logs one notice, and
\* the enumeration goes on: a finished cycle has visited every registered
\* metric, and a recognized metric visited while the writer is healthy has
\* its lines written and flushed or failed on its own flush.
C6_UnrecognizedKindSkipped ==
    /\ \A i \in UnrecognizedVisits : out[i].lines = <<>>
    /\ Len(SelectSeq(logged, IsNotice)) = Cardinality(UnrecognizedVisits)
    /\ (pc = "ret" /\ ~DialRefused) => (Len(out) = Cardinality(DOMAIN registry))
    /\ \A i \in 1..Len(out) :
          (out[i].kind \in KnownKinds /\ \A j \in 1..(i - 1) : out[j].flushed)
             => (out[i].lines # <<>>)

\* A cycle has visited an unrecognized metric first and then written and
\* flushed a Counter's lines.
C6_Witness ==
    /\ pc = "ret"
    /\ Len(out) = 2
    /\ out[1].kind = "Healthcheck"
    /\ out[2].kind = "Counter"
    /\ out[2].flushed
    /\ Len(out[2].lines) = 2
    /\ Len(logged) = 1

\* C7: splitNameAndTags cuts at the first semicolon only: without a semicolon
\* the name is unchanged and the tags are empty; otherwise the name has no
\* semicolon and the tags start with one; name followed by tags is the input.
C7_SplitAtFirstSemicolon ==
    (fn = "splitNameAndTags") =>
        /\ res.name \o res.tags = arg.name
        /\ ~Contains(res.name, ";")
        /\ ~Contains(arg.name, ";") => (res.name = arg.name /\ res.tags = <<>>)
        /\ Contains(arg.name, ";") => (res.tags # <<>> /\ Head(res.tags) = ";")

\* A name with two semicolons has been split.
C7_Witness ==
    /\ fn = "splitNameAndTags"
    /\ arg.name = <<"a", ";", "b", ";">>
    /\ res.name = <<"a">>
    /\ res.tags = <<";", "b", ";">>

\* C8 as stated: the keys of 0.999, 0.5 and 0.95 are "9990", "50" and "950".
C8_KeysAsStated ==
    (fn = "PercentileKey") =>
        /\ (arg.p = 999) => (res.key = <<"9", "9", "9", "0">>)
        /\ (arg.p = 500) => (res.key = <<"5", "0">>)
        /\ (arg.p = 950) => (res.key = <<"9", "5", "0">>)

\* C8, amended: the key is the shortest decimal of the float64 p*100 without
\* its ".": it holds no ".", a whole product gives its digits alone (no
\* trailing zero) and a product with one decimal gives the digits of p*1000;
\* the keys of 0.999, 0.5 and 0.95 are "999", "50" and "95".
C8_KeysAmended ==
    (fn = "PercentileKey") =>
        /\ ~Contains(res.key, ".")
        /\ (arg.p % 10 = 0 /\ arg.p \notin {70, 290}) => (res.key = FormatNat(arg.p \div 10))
        /\ (arg.p = 999) => (res.key = <<"9", "9", "9">>)
        /\ (arg.p = 500) => (res.key = <<"5", "0">>)
        /\ (arg.p = 950) => (res.key = <<"9", "5">>)

\* The key of 0.95 has been computed.
C8_Witness == fn = "PercentileKey" /\ arg.p = 950 /\ res.key = <<"9", "5">>

\* C9: w.Flush() is called exactly once per visited metric, whatever its type
\* and whatever earlier writes or flushes returned, each flush carries the
\* lines of that metric alone, and a finished cycle has made as many flush
\* calls as there are registered metrics.
C9_OneFlushPerMetric ==
    /\ flushes = Len(out)
    /\ (pc = "ret" /\ ~DialRefused) => (flushes = Cardinality(DOMAIN registry))
    /\ \A i \in 1..Len(out) : \A j \in 1..Len(out[i].lines) :
          LET h == c.Prefix \o <<".">> \o splitNameAndTags(out[i].raw)[1] \o <<".">>
          IN  SubSeq(out[i].lines[j], 1, Len(h)) = h

\* A cycle has finished in which the flush of the first metric failed and the
\* flush for the second metric was still called.
C9_Witness ==
    /\ pc = "ret"
    /\ Len(out) = 2
    /\ flushes = 2
    /\ out[1].kind \in KnownKinds
    /\ ~out[1].flushed
    /\ ~out[2].flushed

\* C10: in continuous mode cycles are started by ticks only, none before one
\* full interval has passed, and one at a time: a cycle starts with no
\* connection open and at most one connection is ever open.
C10_CyclesFollowTicks ==
    (mode = "WithConfig") =>
        /\ fired = clock \div c.FlushInterval
        /\ cycles <= fired
        /\ cycles * c.FlushInterval <= clock
        /\ (cycles = 0) => (pc = "wait")
        /\ openConns <= 1
        /\ (pc \in {"wait", "dial"}) => (openConns = 0)

\* With a flush interval of two seconds the second cycle is running.
C10_Witness ==
    /\ mode = "WithConfig"
    /\ c.FlushInterval = 2
    /\ cycles = 2
    /\ clock = 4
    /\ pc = "each"

====
